---- MODULE Spec2Model ----
(***************************************************************************)
(* Event-thread subsystem of brother-scand (src/event_thread.c).           *)
(*                                                                         *)
(* g_threads is a table of MAX_EVENT_THREADS slots; slot index idx is the  *)
(* C index (0-based), a handle (thread_id) is idx + 1.  Caller threads run *)
(* the public API (create, enqueue, stop, wait, shutdown); every spawned   *)
(* worker runs event_thread_loop.  con_queue.c is not part of the sources  *)
(* at hand: the mailbox is modelled from its contract (FIFO of pointers,   *)
(* a dequeue that blocks until an item is there or a signal interrupts     *)
(* the wait).                                                              *)
(***************************************************************************)
EXTENDS Integers, Sequences, FiniteSets, TLC

\* ----- program constants -------------------------------------------------
MAX_EVENT_THREADS == 32
\* thread->events->size: the pointers the storage of a mailbox has room for
QUEUE_SIZE == 32

\* ----- bounds of the model -----------------------------------------------
\* calls to event_thread_create in Spec (PairSpec has one more)
MaxCreates == 1
\* calls to event_thread_enqueue_event made by callers (not by create/stop)
MaxEnqueues == 2
\* direct calls to event_thread_stop
MaxStops == 1
\* calls to event_thread_lib_shutdown / event_thread_lib_wait
MaxShutdowns == 1
MaxWaits == 1
\* injected failures (strdup, calloc, pthread_create, signal)
MaxFailures == 1
\* calls to event_thread_create made by two racing threads in RaceSpec
MaxRaceCreates == 3
\* records a producer pushes to one mailbox in FillSpec
MaxFill == 33

\* caller threads: 1 is the controlling (main) thread, 2 is another thread
Callers == {1, 2}
\* indices of the table g_threads
TableIdx == 0..(MAX_EVENT_THREADS - 1)
\* the slots MaxCreates calls to create can hand out: their threads are scheduled
WorkerIdx == 0..(MaxCreates - 1)
\* the slots of PairSpec, which has one worker more
PairIdx == 0..MaxCreates
\* handles callers pass to enqueue / stop: created or not yet created ones,
\* and the ones around the ends of the handle space
Handles == 1..(MaxCreates + 1)
EdgeHandles == {0, MAX_EVENT_THREADS, MAX_EVENT_THREADS + 1}
\* update callbacks callers pass to create ("nullcb" is a NULL function pointer)
UpdateCbs == {"update", "nullcb"}

VARIABLES
    g_thread_cnt,   \* atomic_size_t g_thread_cnt
    assigned,       \* the thread_id of every event_thread_create call, in call order
    running,        \* g_threads[idx].running
    name,           \* g_threads[idx].name: "null" | "set" | "freed"
    events,         \* g_threads[idx].events: "null" | "alloc" | "freed"
    queue,          \* contents of the mailbox g_threads[idx].events points to
    tpc,            \* g_threads[idx].tid and the position of that thread
    update_ev,      \* event_thread_loop's local update_ev (0 is NULL)
    sigPending,     \* SIGUSR1 sent to the thread and not yet delivered
    handlerSet,     \* process-wide disposition of SIGUSR1 is sig_handler
    recs,           \* every struct event ever allocated, by allocation order
    hist,           \* per worker: callbacks invoked by the loop (0 = tick)
    enqOrder,       \* per slot: records pushed to its mailbox, in push order
    cpc,            \* position of each caller thread
    ch,             \* caller local: thread_id
    ci,             \* caller local: loop index i
    cspawned,       \* threads alive or spawned when the caller entered shutdown
    cwrun,          \* slots marked running when the caller entered wait
    cop,            \* the API call the caller is in ("none" when idle)
    ret,            \* what the caller's last finished call returned
    budget,         \* calls made so far, per kind (bounds the model)
    proc,           \* "up" | "undefined" | "killed"
    ub              \* undefined operations performed so far

vars == <<g_thread_cnt, assigned, running, name, events, queue, tpc, update_ev, sigPending,
          handlerSet, recs, hist, enqOrder, cpc, ch, ci, cspawned, cwrun, cop, ret,
          budget, proc, ub>>

slotVars == <<running, name, events, tpc>>
workerVars == <<update_ev, hist>>
callerLocals == <<ch, ci, cspawned, cwrun, cop>>

NoRet == [op |-> "none", arg |-> 0, val |-> 0]

Init ==
    /\ g_thread_cnt = 0
    /\ assigned = <<>>
    /\ running = <<>>
    /\ name = <<>>
    /\ events = <<>>
    /\ queue = <<>>
    /\ tpc = <<>>
    /\ update_ev = <<>>
    /\ sigPending = <<>>
    /\ handlerSet = FALSE
    /\ recs = <<>>
    /\ hist = <<>>
    /\ enqOrder = <<>>
    /\ cpc = [c \in Callers |-> "idle"]
    /\ ch = [c \in Callers |-> 0]
    /\ ci = [c \in Callers |-> 0]
    /\ cspawned = [c \in Callers |-> {}]
    /\ cwrun = [c \in Callers |-> {}]
    /\ cop = [c \in Callers |-> "none"]
    /\ ret = [c \in Callers |-> NoRet]
    /\ budget = [enq |-> 0, stop |-> 0, shut |-> 0, wait |-> 0, fail |-> 0]
    /\ proc = "up"
    /\ ub = {}

\* ----- helpers -----------------------------------------------------------

\* The per-slot variables are functions on the indices the counter has handed
\* out so far; every other slot of the static table still holds its zero value.
Used == DOMAIN running
RunningAt(i) == IF i \in Used THEN running[i] ELSE FALSE
EventsAt(i) == IF i \in Used THEN events[i] ELSE "null"
TidAt(i) == IF i \in Used THEN tpc[i] ELSE "none"

\* an injected failure is drawn only while the failure budget lasts
Outcomes == IF budget.fail < MaxFailures THEN {TRUE, FALSE} ELSE {TRUE}
Spend(ok) == IF ok THEN budget ELSE [budget EXCEPT !.fail = @ + 1]

\* an undefined operation (an access outside the table, a push to a mailbox
\* that was never allocated or was freed, a thread id that names no thread):
\* it is recorded and nothing is said about what the process does after it
Undefined(tag) ==
    /\ ub' = ub \cup {tag}
    /\ proc' = "undefined"

Defined == UNCHANGED <<ub, proc>>

Return(c, op, arg, val) ==
    /\ cpc' = [cpc EXCEPT ![c] = "idle"]
    /\ cop' = [cop EXCEPT ![c] = "none"]
    /\ ret' = [ret EXCEPT ![c] = [op |-> op, arg |-> arg, val |-> val]]

\* get_event_thread: <<>> is NULL, <<idx>> is &g_threads[idx]
get_event_thread(thread_id) ==
    IF thread_id > MAX_EVENT_THREADS THEN <<>> ELSE <<thread_id - 1>>

\* con_queue_push / con_queue_pop on the contents of a mailbox.  A push appends;
\* the storage create allocates holds QUEUE_SIZE pointers and is never
\* replaced, so a push that finds it full cannot keep all of them: the new
\* pointer is not stored, or it takes the place of the oldest one
con_queue_push(q, e) ==
    IF Len(q) < QUEUE_SIZE THEN {Append(q, e)} ELSE {q, Append(Tail(q), e)}
con_queue_pop(q) == [element |-> Head(q), rest |-> Tail(q)]

NewRec(c, cb, idx) == [cb |-> cb, by |-> c, to |-> idx, frees |-> 0, calls |-> 0]
Free(rs, e) == IF e = 0 THEN rs ELSE [rs EXCEPT ![e].frees = @ + 1]

\* status event_thread_enqueue_event returns
EnqueueStatus(thread_id, allocOk) ==
    IF get_event_thread(thread_id) = <<>> THEN -1
    ELSE IF ~allocOk THEN -1 ELSE 0

\* event_thread_enqueue_event: its effect on the records and the mailboxes
event_thread_enqueue_event(c, thread_id, cb, allocOk) ==
    LET t == get_event_thread(thread_id) IN
    IF t = <<>> \/ ~allocOk
    THEN /\ UNCHANGED <<recs, queue, enqOrder>>
         /\ Defined
    ELSE LET idx == t[1]
             e == Len(recs) + 1
         IN /\ recs' = Append(recs, NewRec(c, cb, idx))
            /\ IF idx \in TableIdx /\ EventsAt(idx) = "alloc"
               THEN /\ \E q \in con_queue_push(queue[idx], e) :
                          queue' = [queue EXCEPT ![idx] = q]
                    /\ enqOrder' = [enqOrder EXCEPT ![idx] = Append(@, e)]
                    /\ Defined
               ELSE /\ UNCHANGED <<queue, enqOrder>>
                    /\ Undefined(IF idx \notin TableIdx THEN "oob_access"
                                 ELSE IF EventsAt(idx) = "null" THEN "push_null_queue"
                                 ELSE "push_freed_queue")

\* pthread_kill(thread->tid, SIGUSR1)
pthread_kill(idx) ==
    IF idx \in TableIdx /\ TidAt(idx) \notin {"none", "joined"}
    THEN /\ sigPending' = [sigPending EXCEPT ![idx] = (tpc[idx] # "exited")]
         /\ Defined
    ELSE /\ UNCHANGED sigPending
         /\ Undefined(IF idx \notin TableIdx THEN "oob_access" ELSE "kill_invalid_tid")

\* ----- event_thread_create ------------------------------------------------

\* (variant) the counter is read and written back with a plain load and store:
\* a call that races with another call in progress gets the value that call got
CreateBegin_PlainIncrement(c, cap) ==
    /\ proc = "up" /\ cpc[c] = "idle"
    /\ g_thread_cnt < cap
    /\ LET raced == \E d \in Callers : d # c /\ cop[d] = "create" /\ ch[d] = g_thread_cnt
           thread_id == IF raced THEN g_thread_cnt ELSE g_thread_cnt + 1
           idx == thread_id - 1
       IN /\ g_thread_cnt' = thread_id
          /\ assigned' = Append(assigned, thread_id)
          /\ running' = (idx :> TRUE) @@ running
          /\ name' = (idx :> "null") @@ name
          /\ events' = (idx :> "null") @@ events
          /\ queue' = (idx :> <<>>) @@ queue
          /\ tpc' = (idx :> "none") @@ tpc
          /\ update_ev' = (idx :> 0) @@ update_ev
          /\ sigPending' = (idx :> FALSE) @@ sigPending
          /\ hist' = (idx :> <<>>) @@ hist
          /\ enqOrder' = (idx :> <<>>) @@ enqOrder
          /\ IF idx \in TableIdx THEN Defined ELSE Undefined("oob_write")
          /\ ch' = [ch EXCEPT ![c] = thread_id]
    /\ cpc' = [cpc EXCEPT ![c] = "cr_alloc"]
    /\ cop' = [cop EXCEPT ![c] = "create"]
    /\ UNCHANGED <<handlerSet, recs, ci, cspawned, cwrun, ret, budget>>

\* thread_id = atomic_fetch_add(&g_thread_cnt, 1) + 1; thread->running = true
CreateBegin(c, cap) ==
    /\ proc = "up" /\ cpc[c] = "idle"
    /\ g_thread_cnt < cap
    /\ LET thread_id == g_thread_cnt + 1
           idx == thread_id - 1
       IN /\ g_thread_cnt' = g_thread_cnt + 1
          /\ assigned' = Append(assigned, thread_id)
          /\ running' = running @@ (idx :> TRUE)
          /\ name' = name @@ (idx :> "null")
          /\ events' = events @@ (idx :> "null")
          /\ queue' = queue @@ (idx :> <<>>)
          /\ tpc' = tpc @@ (idx :> "none")
          /\ update_ev' = update_ev @@ (idx :> 0)
          /\ sigPending' = sigPending @@ (idx :> FALSE)
          /\ hist' = hist @@ (idx :> <<>>)
          /\ enqOrder' = enqOrder @@ (idx :> <<>>)
          /\ IF idx \in TableIdx THEN Defined ELSE Undefined("oob_write")
          /\ ch' = [ch EXCEPT ![c] = thread_id]
    /\ cpc' = [cpc EXCEPT ![c] = "cr_alloc"]
    /\ cop' = [cop EXCEPT ![c] = "create"]
    /\ UNCHANGED <<handlerSet, recs, ci, cspawned, cwrun, ret, budget>>

\* thread->name = strdup(name); thread->events = calloc(...)
CreateAlloc(c) ==
    /\ proc = "up" /\ cpc[c] = "cr_alloc"
    /\ LET idx == ch[c] - 1 IN
       \E nameOk \in Outcomes :
          IF ~nameOk
          THEN /\ name' = [name EXCEPT ![idx] = "null"]
               /\ budget' = Spend(FALSE)
               /\ Return(c, "create", ch[c], 0)
               /\ UNCHANGED <<events, queue>>
          ELSE \E evOk \in Outcomes :
                  /\ budget' = Spend(evOk)
                  /\ IF ~evOk
                     THEN /\ events' = [events EXCEPT ![idx] = "null"]
                          /\ name' = [name EXCEPT ![idx] = "freed"]
                          /\ Return(c, "create", ch[c], 0)
                          /\ UNCHANGED queue
                     ELSE /\ name' = [name EXCEPT ![idx] = "set"]
                          /\ events' = [events EXCEPT ![idx] = "alloc"]
                          /\ queue' = [queue EXCEPT ![idx] = <<>>]
                          /\ cpc' = [cpc EXCEPT ![c] = "cr_enq"]
                          /\ UNCHANGED <<ret, cop>>
    /\ UNCHANGED <<g_thread_cnt, assigned, running, tpc, update_ev, sigPending, handlerSet, recs,
                   hist, enqOrder, ch, ci, cspawned, cwrun, proc, ub>>

\* event_thread_enqueue_event(thread_id, update_cb, arg1, arg2), result ignored
CreateEnqueue(c, cbs) ==
    /\ proc = "up" /\ cpc[c] = "cr_enq"
    /\ \E cb \in cbs :
       \E ok \in (IF get_event_thread(ch[c]) = <<>> THEN {TRUE} ELSE Outcomes) :
          /\ event_thread_enqueue_event(c, ch[c], cb, ok)
          /\ budget' = Spend(ok)
    /\ cpc' = [cpc EXCEPT ![c] = "cr_spawn"]
    /\ UNCHANGED <<g_thread_cnt, assigned, slotVars, workerVars, sigPending, handlerSet,
                   callerLocals, ret>>

\* pthread_create(&thread->tid, ...); on failure events_err / name_err / err
CreateSpawn(c) ==
    /\ proc = "up" /\ cpc[c] = "cr_spawn"
    /\ LET idx == ch[c] - 1 IN
       \E ok \in Outcomes :
          /\ budget' = Spend(ok)
          /\ IF ok
             THEN /\ tpc' = [tpc EXCEPT ![idx] = "start"]
                  /\ Return(c, "create", ch[c], ch[c])
                  /\ UNCHANGED <<events, name>>
             ELSE /\ events' = [events EXCEPT ![idx] = "freed"]
                  /\ name' = [name EXCEPT ![idx] = "freed"]
                  /\ Return(c, "create", ch[c], 0)
                  /\ UNCHANGED tpc
    /\ UNCHANGED <<g_thread_cnt, assigned, running, queue, update_ev, sigPending, handlerSet, recs,
                   hist, enqOrder, ch, ci, cspawned, cwrun, proc, ub>>

\* ----- event_thread_enqueue_event called by a producer --------------------

Enqueue(c, thread_id) ==
    /\ proc = "up" /\ cpc[c] = "idle"
    /\ budget.enq < MaxEnqueues
    /\ \E ok \in (IF get_event_thread(thread_id) = <<>> THEN {TRUE} ELSE Outcomes) :
          /\ event_thread_enqueue_event(c, thread_id, "user", ok)
          /\ budget' = [Spend(ok) EXCEPT !.enq = @ + 1]
          /\ Return(c, "enqueue", thread_id, EnqueueStatus(thread_id, ok))
    /\ UNCHANGED <<g_thread_cnt, assigned, slotVars, workerVars, sigPending, handlerSet, ch, ci,
                   cspawned, cwrun>>

\* a producer that keeps enqueuing to one handle (FillSpec)
EnqueueFill(c, thread_id) ==
    /\ proc = "up" /\ cpc[c] = "idle"
    /\ thread_id - 1 \in Used
    /\ Len(enqOrder[thread_id - 1]) < MaxFill
    /\ \E ok \in Outcomes :
          /\ event_thread_enqueue_event(c, thread_id, "user", ok)
          /\ budget' = Spend(ok)
          /\ Return(c, "enqueue", thread_id, EnqueueStatus(thread_id, ok))
    /\ UNCHANGED <<g_thread_cnt, assigned, slotVars, workerVars, sigPending, handlerSet, ch, ci,
                   cspawned, cwrun>>

\* ----- event_thread_stop ---------------------------------------------------

\* get_event_thread, then the stop event is enqueued
StopBegin(c, thread_id) ==
    /\ proc = "up" /\ cpc[c] = "idle"
    /\ budget.stop < MaxStops
    /\ \E ok \in (IF get_event_thread(thread_id) = <<>> THEN {TRUE} ELSE Outcomes) :
          /\ event_thread_enqueue_event(c, thread_id, "stop", ok)
          /\ budget' = [Spend(ok) EXCEPT !.stop = @ + 1]
          /\ IF EnqueueStatus(thread_id, ok) # 0
             THEN /\ Return(c, "stop", thread_id, -1)
                  /\ UNCHANGED ch
             ELSE /\ cpc' = [cpc EXCEPT ![c] = "st_kill"]
                  /\ cop' = [cop EXCEPT ![c] = "stop"]
                  /\ ch' = [ch EXCEPT ![c] = thread_id]
                  /\ UNCHANGED ret
    /\ UNCHANGED <<g_thread_cnt, assigned, slotVars, workerVars, sigPending, handlerSet, ci,
                   cspawned, cwrun>>

\* (variant) event_thread_stop clears the running flag itself before signalling
StopKill_ClearsFlag(c) ==
    /\ proc = "up" /\ cpc[c] = "st_kill"
    /\ pthread_kill(ch[c] - 1)
    /\ running' = [i \in DOMAIN running |-> IF i = ch[c] - 1 THEN FALSE ELSE running[i]]
    /\ Return(c, "stop", ch[c], 0)
    /\ UNCHANGED <<g_thread_cnt, assigned, name, events, tpc, queue, workerVars, handlerSet,
                   recs, enqOrder, ch, ci, cspawned, cwrun, budget>>

\* pthread_kill(thread->tid, SIGUSR1); return 0
StopKill(c) ==
    /\ proc = "up" /\ cpc[c] = "st_kill"
    /\ pthread_kill(ch[c] - 1)
    /\ Return(c, "stop", ch[c], 0)
    /\ UNCHANGED <<g_thread_cnt, assigned, slotVars, queue, workerVars, handlerSet, recs, enqOrder,
                   ch, ci, cspawned, cwrun, budget>>

\* ----- event_thread_lib_shutdown / event_thread_lib_wait -------------------

\* i + 1, or the end of the table once no later slot was or will be written
NextIndex(i) ==
    IF i + 1 >= MaxCreates /\ g_thread_cnt <= MaxCreates
    THEN MAX_EVENT_THREADS ELSE i + 1

ShutdownBegin(c) ==
    /\ proc = "up" /\ cpc[c] = "idle"
    /\ budget.shut < MaxShutdowns
    /\ budget' = [budget EXCEPT !.shut = @ + 1]
    /\ cpc' = [cpc EXCEPT ![c] = "sh_loop"]
    /\ cop' = [cop EXCEPT ![c] = "shutdown"]
    /\ ci' = [ci EXCEPT ![c] = 0]
    /\ cspawned' = [cspawned EXCEPT ![c] = {i \in Used : tpc[i] # "none"}]
    /\ UNCHANGED <<g_thread_cnt, assigned, slotVars, queue, workerVars, sigPending, handlerSet,
                   recs, enqOrder, ch, cwrun, ret, proc, ub>>

\* event_thread_lib_wait is entered: i = 0
EnterWait(c) ==
    /\ cpc' = [cpc EXCEPT ![c] = "wt_loop"]
    /\ ci' = [ci EXCEPT ![c] = 0]
    /\ cwrun' = [cwrun EXCEPT ![c] = {i \in Used \cap TableIdx : running[i]}]

\* one iteration of the stop pass: if (thread->running) event_thread_stop(i + 1)
ShutdownLoop(c) ==
    /\ proc = "up" /\ cpc[c] = "sh_loop"
    /\ LET i == ci[c] IN
       IF i >= MAX_EVENT_THREADS
       THEN /\ EnterWait(c)
            /\ UNCHANGED <<recs, queue, enqOrder, budget, proc, ub>>
       ELSE IF ~RunningAt(i)
       THEN /\ ci' = [ci EXCEPT ![c] = NextIndex(i)]
            /\ UNCHANGED <<recs, queue, enqOrder, budget, proc, ub, cpc, cwrun>>
       ELSE \E ok \in Outcomes :
               /\ event_thread_enqueue_event(c, i + 1, "stop", ok)
               /\ budget' = Spend(ok)
               /\ IF EnqueueStatus(i + 1, ok) # 0
                  THEN /\ ci' = [ci EXCEPT ![c] = NextIndex(i)]
                       /\ UNCHANGED cpc
                  ELSE /\ cpc' = [cpc EXCEPT ![c] = "sh_kill"]
                       /\ UNCHANGED ci
               /\ UNCHANGED cwrun
    /\ UNCHANGED <<g_thread_cnt, assigned, slotVars, workerVars, sigPending, handlerSet, ch,
                   cspawned, cop, ret>>

\* the pthread_kill of the event_thread_stop called by the stop pass
ShutdownKill(c) ==
    /\ proc = "up" /\ cpc[c] = "sh_kill"
    /\ pthread_kill(ci[c])
    /\ cpc' = [cpc EXCEPT ![c] = "sh_loop"]
    /\ ci' = [ci EXCEPT ![c] = NextIndex(ci[c])]
    /\ UNCHANGED <<g_thread_cnt, assigned, slotVars, queue, workerVars, handlerSet, recs, enqOrder,
                   ch, cspawned, cwrun, cop, ret, budget>>

WaitBegin(c) ==
    /\ proc = "up" /\ cpc[c] = "idle"
    /\ budget.wait < MaxWaits
    /\ budget' = [budget EXCEPT !.wait = @ + 1]
    /\ EnterWait(c)
    /\ cop' = [cop EXCEPT ![c] = "wait"]
    /\ UNCHANGED <<g_thread_cnt, assigned, slotVars, queue, workerVars, sigPending, handlerSet,
                   recs, enqOrder, ch, cspawned, ret, proc, ub>>

\* one iteration of the wait pass: if (thread->running) pthread_join(...)
WaitLoop(c) ==
    /\ proc = "up" /\ cpc[c] = "wt_loop"
    /\ LET i == ci[c] IN
       IF i >= MAX_EVENT_THREADS
       THEN /\ Return(c, cop[c], 0, 0)
            /\ UNCHANGED ci
       ELSE IF ~RunningAt(i)
       THEN /\ ci' = [ci EXCEPT ![c] = NextIndex(i)]
            /\ UNCHANGED <<cpc, cop, ret>>
       ELSE /\ cpc' = [cpc EXCEPT ![c] = "wt_join"]
            /\ UNCHANGED <<ci, cop, ret>>
    /\ UNCHANGED <<g_thread_cnt, assigned, slotVars, queue, workerVars, sigPending, handlerSet,
                   recs, enqOrder, ch, cspawned, cwrun, budget, proc, ub>>

\* pthread_join(thread->tid, NULL) returns
WaitJoin(c) ==
    /\ proc = "up" /\ cpc[c] = "wt_join"
    /\ LET i == ci[c] IN
       /\ IF TidAt(i) \in {"none", "joined"}
          THEN /\ Undefined("join_invalid_tid")
               /\ UNCHANGED tpc
          ELSE /\ tpc[i] = "exited"
               /\ tpc' = [tpc EXCEPT ![i] = "joined"]
               /\ Defined
       /\ ci' = [ci EXCEPT ![c] = NextIndex(i)]
    /\ cpc' = [cpc EXCEPT ![c] = "wt_loop"]
    /\ UNCHANGED <<g_thread_cnt, assigned, running, name, events, queue, workerVars, sigPending,
                   handlerSet, recs, enqOrder, ch, cspawned, cwrun, cop, ret, budget>>

\* ----- event_thread_loop (the worker thread of slot w) ---------------------

\* goto out: free(update_ev), then event_thread_destroy starts
GotoOut(w) ==
    /\ recs' = Free(recs, update_ev[w])
    /\ tpc' = [tpc EXCEPT ![w] = "drain"]

\* signal(SIGUSR1, sig_handler)
WorkerStart(w) ==
    /\ proc = "up" /\ w \in Used /\ tpc[w] = "start"
    /\ \E ok \in Outcomes :
          /\ budget' = Spend(ok)
          /\ IF ok
             THEN /\ handlerSet' = TRUE
                  /\ tpc' = [tpc EXCEPT ![w] = "fetch"]
                  /\ UNCHANGED recs
             ELSE /\ GotoOut(w)
                  /\ UNCHANGED handlerSet
    /\ UNCHANGED <<g_thread_cnt, assigned, running, name, events, queue, workerVars, sigPending,
                   enqOrder, cpc, callerLocals, ret, proc, ub>>

\* a con_queue_pop finds the mailbox empty and the thread waits
WorkerBlock(w) ==
    /\ proc = "up" /\ w \in Used /\ tpc[w] \in {"fetch", "pop", "drain"}
    /\ queue[w] = <<>>
    /\ tpc' = [tpc EXCEPT ![w] = IF tpc[w] = "fetch" THEN "fetch_w"
                                 ELSE IF tpc[w] = "pop" THEN "pop_w" ELSE "drain_w"]
    /\ UNCHANGED <<g_thread_cnt, assigned, running, name, events, queue, workerVars, sigPending,
                   handlerSet, recs, enqOrder, cpc, callerLocals, ret, budget, proc, ub>>

\* con_queue_pop(thread->events, &update_ev) == 0
WorkerFetch(w) ==
    /\ proc = "up" /\ w \in Used /\ tpc[w] \in {"fetch", "fetch_w"}
    /\ queue[w] # <<>>
    /\ update_ev' = [update_ev EXCEPT ![w] = con_queue_pop(queue[w]).element]
    /\ queue' = [queue EXCEPT ![w] = con_queue_pop(@).rest]
    /\ tpc' = [tpc EXCEPT ![w] = "loop"]
    /\ UNCHANGED <<g_thread_cnt, assigned, running, name, events, hist, sigPending, handlerSet,
                   recs, enqOrder, cpc, callerLocals, ret, budget, proc, ub>>

\* what invoking the callback of record e on worker w does to the running flags
Invoke(e) ==
    IF recs[e].cb = "stop" THEN [running EXCEPT ![recs[e].to] = FALSE] ELSE running

\* (variant) the tick is skipped whenever the mailbox already holds work
WorkerLoop_SkipTick(w) ==
    /\ proc = "up" /\ w \in Used /\ tpc[w] = "loop"
    /\ IF running[w]
       THEN /\ IF recs[update_ev[w]].cb # "nullcb" /\ queue[w] = <<>>
               THEN /\ hist' = [hist EXCEPT ![w] = Append(@, 0)]
                    /\ running' = Invoke(update_ev[w])
               ELSE UNCHANGED <<hist, running>>
            /\ tpc' = [tpc EXCEPT ![w] = "pop"]
            /\ UNCHANGED recs
       ELSE /\ GotoOut(w)
            /\ UNCHANGED <<hist, running>>
    /\ UNCHANGED <<g_thread_cnt, assigned, name, events, queue, update_ev, sigPending, handlerSet,
                   enqOrder, cpc, callerLocals, ret, budget, proc, ub>>

\* while (thread->running) { if (update_ev->callback) update_ev->callback(...)
WorkerLoop(w) ==
    /\ proc = "up" /\ w \in Used /\ tpc[w] = "loop"
    /\ IF running[w]
       THEN /\ IF recs[update_ev[w]].cb # "nullcb"
               THEN /\ hist' = [hist EXCEPT ![w] = Append(@, 0)]
                    /\ running' = Invoke(update_ev[w])
               ELSE UNCHANGED <<hist, running>>
            /\ tpc' = [tpc EXCEPT ![w] = "pop"]
            /\ UNCHANGED recs
       ELSE /\ GotoOut(w)
            /\ UNCHANGED <<hist, running>>
    /\ UNCHANGED <<g_thread_cnt, assigned, name, events, queue, update_ev, sigPending, handlerSet,
                   enqOrder, cpc, callerLocals, ret, budget, proc, ub>>

\* (variant) a worker with nothing to do takes work from any mailbox that has some
WorkerPop_Steals(w) ==
    /\ proc = "up" /\ w \in Used /\ tpc[w] \in {"pop", "pop_w"}
    /\ \E v \in Used :
          /\ queue[v] # <<>>
          /\ v = w \/ queue[w] = <<>>
          /\ LET e == con_queue_pop(queue[v]).element IN
             /\ queue' = [queue EXCEPT ![v] = con_queue_pop(@).rest]
             /\ hist' = [hist EXCEPT ![w] = Append(@, e)]
             /\ running' = Invoke(e)
             /\ recs' = Free([recs EXCEPT ![e].calls = @ + 1], e)
    /\ tpc' = [tpc EXCEPT ![w] = "loop"]
    /\ UNCHANGED <<g_thread_cnt, assigned, name, events, update_ev, sigPending, handlerSet,
                   enqOrder, cpc, callerLocals, ret, budget, proc, ub>>

\* (variant) the loop takes the record pushed last instead of the oldest one
WorkerPop_Lifo(w) ==
    /\ proc = "up" /\ w \in Used /\ tpc[w] \in {"pop", "pop_w"}
    /\ queue[w] # <<>>
    /\ LET e == queue[w][Len(queue[w])] IN
       /\ queue' = [queue EXCEPT ![w] = SubSeq(@, 1, Len(@) - 1)]
       /\ hist' = [hist EXCEPT ![w] = Append(@, e)]
       /\ running' = Invoke(e)
       /\ recs' = Free([recs EXCEPT ![e].calls = @ + 1], e)
    /\ tpc' = [tpc EXCEPT ![w] = "loop"]
    /\ UNCHANGED <<g_thread_cnt, assigned, name, events, update_ev, sigPending, handlerSet,
                   enqOrder, cpc, callerLocals, ret, budget, proc, ub>>

\* con_queue_pop(...) == 0: event->callback(event->arg1, event->arg2); free(event)
WorkerPop(w) ==
    /\ proc = "up" /\ w \in Used /\ tpc[w] \in {"pop", "pop_w"}
    /\ queue[w] # <<>>
    /\ LET e == con_queue_pop(queue[w]).element IN
       /\ queue' = [queue EXCEPT ![w] = con_queue_pop(@).rest]
       /\ hist' = [hist EXCEPT ![w] = Append(@, e)]
       /\ running' = Invoke(e)
       /\ recs' = Free([recs EXCEPT ![e].calls = @ + 1], e)
    /\ tpc' = [tpc EXCEPT ![w] = "loop"]
    /\ UNCHANGED <<g_thread_cnt, assigned, name, events, update_ev, sigPending, handlerSet,
                   enqOrder, cpc, callerLocals, ret, budget, proc, ub>>

\* event_thread_destroy: while (con_queue_pop(...) == 0) free(event)
WorkerDrain(w) ==
    /\ proc = "up" /\ w \in Used /\ tpc[w] \in {"drain", "drain_w"}
    /\ queue[w] # <<>>
    /\ recs' = Free(recs, con_queue_pop(queue[w]).element)
    /\ queue' = [queue EXCEPT ![w] = con_queue_pop(@).rest]
    /\ tpc' = [tpc EXCEPT ![w] = "drain"]
    /\ UNCHANGED <<g_thread_cnt, assigned, running, name, events, workerVars, sigPending,
                   handlerSet, enqOrder, cpc, callerLocals, ret, budget, proc, ub>>

\* free(thread->events); free(thread->name); pthread_exit(NULL)
WorkerExit(w) ==
    /\ proc = "up" /\ w \in Used /\ tpc[w] = "freeq"
    /\ events' = [events EXCEPT ![w] = "freed"]
    /\ name' = [name EXCEPT ![w] = "freed"]
    /\ tpc' = [tpc EXCEPT ![w] = "exited"]
    /\ sigPending' = [sigPending EXCEPT ![w] = FALSE]
    /\ UNCHANGED <<g_thread_cnt, assigned, running, queue, workerVars, handlerSet, recs, enqOrder,
                   cpc, callerLocals, ret, budget, proc, ub>>

\* (variant) an interrupted dequeue in the loop is treated like a failed fetch
SignalDeliver_InterruptEndsLoop(w) ==
    /\ proc = "up" /\ w \in Used /\ sigPending[w]
    /\ tpc[w] \notin {"none", "exited", "joined"}
    /\ sigPending' = [sigPending EXCEPT ![w] = FALSE]
    /\ IF ~handlerSet
       THEN /\ proc' = "killed"
            /\ UNCHANGED <<tpc, recs>>
       ELSE /\ UNCHANGED proc
            /\ IF tpc[w] \in {"fetch_w", "pop_w"} THEN GotoOut(w)
               ELSE /\ tpc' = [tpc EXCEPT ![w] = IF tpc[w] = "drain_w" THEN "freeq"
                                                ELSE tpc[w]]
                    /\ UNCHANGED recs
    /\ UNCHANGED <<g_thread_cnt, assigned, running, name, events, queue, workerVars, handlerSet,
                   enqOrder, cpc, callerLocals, ret, budget, ub>>

\* (variant) the signal handler itself clears the running flag
SignalDeliver_ClearsFlag(w) ==
    /\ proc = "up" /\ w \in Used /\ sigPending[w]
    /\ tpc[w] \notin {"none", "exited", "joined"}
    /\ sigPending' = [sigPending EXCEPT ![w] = FALSE]
    /\ running' = [running EXCEPT ![w] = FALSE]
    /\ IF ~handlerSet
       THEN /\ proc' = "killed"
            /\ UNCHANGED <<tpc, recs>>
       ELSE /\ UNCHANGED proc
            /\ IF tpc[w] = "fetch_w" THEN GotoOut(w)
               ELSE /\ tpc' = [tpc EXCEPT ![w] = IF tpc[w] = "pop_w" THEN "loop"
                                                ELSE IF tpc[w] = "drain_w" THEN "freeq"
                                                ELSE tpc[w]]
                    /\ UNCHANGED recs
    /\ UNCHANGED <<g_thread_cnt, assigned, name, events, queue, workerVars, handlerSet,
                   enqOrder, cpc, callerLocals, ret, budget, ub>>

\* SIGUSR1 is delivered to the thread of slot w: sig_handler runs (it does
\* nothing) and a wait in con_queue_pop returns "interrupted"; with the default
\* disposition still in place the signal terminates the process
SignalDeliver(w) ==
    /\ proc = "up" /\ w \in Used /\ sigPending[w]
    /\ tpc[w] \notin {"none", "exited", "joined"}
    /\ sigPending' = [sigPending EXCEPT ![w] = FALSE]
    /\ IF ~handlerSet
       THEN /\ proc' = "killed"
            /\ UNCHANGED <<tpc, recs>>
       ELSE /\ UNCHANGED proc
            /\ IF tpc[w] = "fetch_w" THEN GotoOut(w)
               ELSE /\ tpc' = [tpc EXCEPT ![w] = IF tpc[w] = "pop_w" THEN "loop"
                                                ELSE IF tpc[w] = "drain_w" THEN "freeq"
                                                ELSE tpc[w]]
                    /\ UNCHANGED recs
    /\ UNCHANGED <<g_thread_cnt, assigned, running, name, events, queue, workerVars, handlerSet,
                   enqOrder, cpc, callerLocals, ret, budget, ub>>

\* ----- specifications --------------------------------------------------------

\* the controlling thread creates the workers, feeds them and shuts them down
MainStep(c) ==
    \/ CreateBegin(c, MaxCreates)
    \/ CreateAlloc(c)
    \/ CreateEnqueue(c, UpdateCbs)
    \/ CreateSpawn(c)
    \/ \E h \in Handles : Enqueue(c, h)
    \/ \E h \in Handles : StopBegin(c, h)
    \/ StopKill(c)
    \/ ShutdownBegin(c)
    \/ ShutdownLoop(c)
    \/ ShutdownKill(c)
    \/ WaitBegin(c)
    \/ WaitLoop(c)
    \/ WaitJoin(c)

\* another thread that holds a handle enqueues to it
ProducerStep(c) ==
    \E h \in Handles : Enqueue(c, h)

WorkerStep(w) ==
    \/ WorkerStart(w)
    \/ WorkerBlock(w)
    \/ WorkerFetch(w)
    \/ WorkerLoop(w)
    \/ WorkerPop(w)
    \/ WorkerDrain(w)
    \/ WorkerExit(w)

Next ==
    \/ MainStep(1)
    \/ ProducerStep(2)
    \/ \E w \in WorkerIdx : WorkerStep(w)
    \/ \E w \in WorkerIdx : SignalDeliver(w)

Spec == Init /\ [][Next]_vars

\* Scheduling: a thread that can take a step of the call or loop it is in
\* eventually takes it, and a pending signal is eventually delivered.  Nothing
\* obliges a caller to start a new call.
FairCaller(c) == cpc[c] # "idle" /\ MainStep(c)
\* Stopping a worker: the controlling thread creates workers and stops them,
\* under the same scheduling
StopNext ==
    \/ CreateBegin(1, MaxCreates)
    \/ CreateAlloc(1)
    \/ CreateEnqueue(1, UpdateCbs)
    \/ CreateSpawn(1)
    \/ \E h \in Handles : StopBegin(1, h)
    \/ StopKill(1)
    \/ \E w \in WorkerIdx : WorkerStep(w)
    \/ \E w \in WorkerIdx : SignalDeliver(w)

StopFairSpec ==
    /\ Init /\ [][StopNext]_vars
    /\ \A w \in WorkerIdx : WF_vars(WorkerStep(w)) /\ WF_vars(SignalDeliver(w))
    /\ WF_vars(FairCaller(1))

\* The handle space: the controlling thread alone, any handle
ApiNext ==
    \/ CreateBegin(1, MaxCreates)
    \/ CreateAlloc(1)
    \/ CreateEnqueue(1, UpdateCbs)
    \/ CreateSpawn(1)
    \/ \E h \in Handles \cup EdgeHandles : Enqueue(1, h)
    \/ \E h \in Handles \cup EdgeHandles : StopBegin(1, h)
    \/ StopKill(1)
    \/ \E w \in WorkerIdx : WorkerStep(w)
    \/ \E w \in WorkerIdx : SignalDeliver(w)

ApiSpec == Init /\ [][ApiNext]_vars

\* The capacity of the table: the controlling thread creates workers until
\* the counter has passed the end of g_threads; the workers are not scheduled
CapNext ==
    \/ CreateBegin(1, MAX_EVENT_THREADS + 1)
    \/ CreateAlloc(1)
    \/ CreateEnqueue(1, {"update"})
    \/ CreateSpawn(1)

CapSpec == Init /\ [][CapNext]_vars

\* Concurrent creation: two threads call event_thread_create at the same time,
\* some calls fail; the workers are not scheduled
RaceNext ==
    \E c \in Callers :
        \/ CreateBegin(c, MaxRaceCreates)
        \/ CreateAlloc(c)
        \/ CreateEnqueue(c, {"update"})
        \/ CreateSpawn(c)

RaceSpec == Init /\ [][RaceNext]_vars

\* Two workers side by side: the controlling thread creates them and stops
\* them, both caller threads enqueue to either handle
PairNext ==
    \/ CreateBegin(1, MaxCreates + 1)
    \/ CreateAlloc(1)
    \/ CreateEnqueue(1, {"update"})
    \/ CreateSpawn(1)
    \/ \E c \in Callers : \E h \in Handles : Enqueue(c, h)
    \/ \E h \in Handles : StopBegin(1, h)
    \/ StopKill(1)
    \/ \E w \in PairIdx : WorkerStep(w)
    \/ \E w \in PairIdx : SignalDeliver(w)

PairSpec == Init /\ [][PairNext]_vars

\* A worker is being created while another thread shuts the library down:
\* thread 1 is in event_thread_create, thread 2 calls event_thread_lib_shutdown
StartRaceNext ==
    \/ CreateBegin(1, MaxCreates)
    \/ CreateAlloc(1)
    \/ CreateEnqueue(1, {"update"})
    \/ CreateSpawn(1)
    \/ ShutdownBegin(2)
    \/ ShutdownLoop(2)
    \/ ShutdownKill(2)
    \/ WaitLoop(2)
    \/ WaitJoin(2)
    \/ \E w \in WorkerIdx : WorkerStep(w)
    \/ \E w \in WorkerIdx : SignalDeliver(w)

StartRaceSpec == Init /\ [][StartRaceNext]_vars

\* A full mailbox: the controlling thread creates a worker, another thread
\* enqueues to it faster than the worker dequeues
FillNext ==
    \/ CreateBegin(1, MaxCreates)
    \/ CreateAlloc(1)
    \/ CreateEnqueue(1, {"update"})
    \/ CreateSpawn(1)
    \/ EnqueueFill(2, 1)
    \/ \E w \in WorkerIdx :
          \/ WorkerStart(w)
          \/ WorkerBlock(w)
          \/ WorkerFetch(w)
          \/ WorkerLoop(w)
          \/ WorkerPop(w)
          \/ WorkerDrain(w)

FillSpec == Init /\ [][FillNext]_vars

\* ----- properties -------------------------------------------------------------

\* the mailbox events worker w has invoked, in invocation order (ticks left out)
IsEvent(x) == x # 0
InvokedSeq(w) == SelectSeq(hist[w], IsEvent)
Occurs(e, q) == \E k \in 1..Len(q) : q[k] = e
\* worker w has left its loop through the while condition
LeftLoop(w) ==
    /\ tpc[w] \in {"drain", "drain_w", "freeq", "exited", "joined"}
    /\ update_ev[w] # 0

\* C1: the events one producer thread enqueued to a worker are invoked by that
\* worker in the order of the producer's enqueue calls: when an event is
\* invoked, every event the same producer pushed to that mailbox earlier has
\* been invoked before it (the update record, kept for the tick, apart).
C1_FifoPerProducer ==
    \A w \in Used :
        LET inv == InvokedSeq(w) IN
        \A j \in 1..Len(inv) :
            \A e \in 1..(inv[j] - 1) :
                ( /\ recs[e].by = recs[inv[j]].by
                  /\ Occurs(e, enqOrder[w])
                  /\ e # update_ev[w] )
                => \E i \in 1..(j - 1) : inv[i] = e

\* witness of C1: a worker has invoked two events of the same producer
C1_Witness ==
    \E w \in Used :
        LET inv == InvokedSeq(w) IN
        \E i, j \in 1..Len(inv) :
            /\ i < j
            /\ recs[inv[i]].by = recs[inv[j]].by
            /\ recs[inv[i]].cb = "user" /\ recs[inv[j]].cb = "user"

FirstStop(w) ==
    LET eo == enqOrder[w]
        S == {k \in 1..Len(eo) : recs[eo[k]].cb = "stop"}
    IN IF S = {} THEN 0 ELSE CHOOSE k \in S : \A m \in S : k <= m

\* C6: a worker leaves its loop only after a stop record was pushed to its
\* mailbox, and the mailbox events it has invoked by then are exactly the
\* records pushed before its first stop record (after the record fetched at
\* startup), in push order, followed by that stop record: the stop overtakes
\* nothing that was pushed earlier.
C6_StopInFifoPosition ==
    \A w \in Used :
        LeftLoop(w) =>
            /\ FirstStop(w) >= 1
            /\ FirstStop(w) >= 2 =>
                  InvokedSeq(w) = SubSeq(enqOrder[w], 2, FirstStop(w))

\* witness of C6: a worker left its loop after invoking an event pushed before
\* the stop record
C6_Witness ==
    \E w \in Used :
        /\ LeftLoop(w)
        /\ FirstStop(w) >= 3
        /\ Len(InvokedSeq(w)) >= 2

Terminated(w) == w \in Used /\ ~running[w] /\ tpc[w] \in {"exited", "joined"}
StopReturned(w) ==
    \E c \in Callers : ret[c] = [op |-> "stop", arg |-> w + 1, val |-> 0]

\* C2: once event_thread_stop(handle) has returned success, the worker's
\* running flag eventually is false and its thread has terminated.
C2_StopLeadsToTermination ==
    \A w \in WorkerIdx : StopReturned(w) ~> Terminated(w)

\* C3: when event_thread_lib_shutdown has returned, every worker thread spawned
\* before the call has terminated and its mailbox, name and records are released.
C3_ShutdownReapsAll ==
    \A c \in Callers :
        ret[c].op = "shutdown" =>
            \A i \in cspawned[c] :
                /\ tpc[i] \in {"exited", "joined"}
                /\ events[i] = "freed" /\ name[i] = "freed"
                /\ \A k \in 1..Len(enqOrder[i]) : recs[enqOrder[i][k]].frees = 1

\* C4: a create call beyond the capacity of the table returns 0 and writes to
\* no slot (the calls before it got the handles 1..MAX_EVENT_THREADS).
C4_CreateBeyondCapacityFailsCleanly ==
    /\ "oob_write" \notin ub
    /\ \A c \in Callers :
          (ret[c].op = "create" /\ ret[c].arg > MAX_EVENT_THREADS) => ret[c].val = 0

\* C7: once a worker's thread has terminated, every record whose enqueue to its
\* mailbox returned success has been freed exactly once and invoked at most once.
C7_EveryRecordFreedOnce ==
    \A w \in Used :
        tpc[w] \in {"exited", "joined"} =>
            \A k \in 1..Len(enqOrder[w]) :
                /\ recs[enqOrder[w][k]].frees = 1
                /\ recs[enqOrder[w][k]].calls <= 1

\* C8: enqueue and stop with a handle outside [1, MAX_EVENT_THREADS] return a
\* failure status and access no slot.
C8_OutOfRangeHandleRejected ==
    /\ "oob_access" \notin ub
    /\ \A c \in Callers :
          ( /\ ret[c].op \in {"enqueue", "stop"}
            /\ ret[c].arg \notin 1..MAX_EVENT_THREADS ) => ret[c].val = -1

\* the records pushed to mailbox i are all freed
AllFreed(i) == \A k \in 1..Len(enqOrder[i]) : recs[enqOrder[i][k]].frees = 1

\* C9: when event_thread_create has returned 0, the slot it used is not marked
\* running and its name copy, mailbox and update record are released.
C9_FailedCreateRolledBack ==
    \A c \in Callers :
        (ret[c].op = "create" /\ ret[c].val = 0) =>
            LET idx == ret[c].arg - 1 IN
            /\ ~running[idx]
            /\ name[idx] # "set" /\ events[idx] # "alloc"
            /\ AllFreed(idx)

\* C10: when event_thread_lib_wait has returned, every worker that was marked
\* running when it was called has terminated.
C10_WaitReturnsAfterTermination ==
    \A c \in Callers :
        ret[c].op \in {"wait", "shutdown"} =>
            \A i \in cwrun[c] : tpc[i] \in {"exited", "joined"}

\* C11: handles come from a counter that only grows and are never handed out
\* twice: the thread_ids of all event_thread_create calls, failed ones and
\* concurrent ones included, are strictly increasing in call order, every slot
\* in use was initialised by exactly one call, two calls in progress or
\* finished never hold the same handle, and the counter equals the number of
\* calls.
C11_HandlesNeverReused ==
    /\ \A i, j \in 1..Len(assigned) : i < j => assigned[i] < assigned[j]
    /\ Len(assigned) = g_thread_cnt
    /\ \A i \in Used : Cardinality({k \in 1..Len(assigned) : assigned[k] = i + 1}) = 1
    /\ \A c, d \in Callers :
          c # d =>
             /\ (cop[c] = "create" /\ cop[d] = "create") => ch[c] # ch[d]
             /\ (cop[c] = "create" /\ ret[d].op = "create") => ch[c] # ret[d].arg
             /\ (ret[c].op = "create" /\ ret[d].op = "create") => ret[c].arg # ret[d].arg

\* witness of C11: after a failed call, two threads are inside
\* event_thread_create at the same time
C11_Witness ==
    /\ \E c \in Callers : ret[c].op = "create" /\ ret[c].val = 0
    /\ \E c, d \in Callers : c # d /\ cop[c] = "create" /\ cop[d] = "create"
    /\ Len(assigned) >= 3

\* the history of thread w before its slot was handed out is empty
HistAt(w) == IF w \in DOMAIN hist THEN hist[w] ELSE <<>>
CallsAt(e) == IF e \in DOMAIN recs THEN recs[e].calls ELSE 0

\* C12: the callbacks bound to a worker run one at a time and on that worker's
\* own thread only: in every step a thread invokes at most one callback, it does
\* so from its loop, the callback it invokes (the tick of the record it fetched
\* at startup, or a mailbox event) belongs to a record that was enqueued to its
\* own handle, and no record is invoked by anything but the thread of the handle
\* it was enqueued to.
C12_CallbacksSequentialOnOwnThread ==
    [][ /\ \A w \in DOMAIN hist' :
             /\ Len(hist'[w]) <= Len(HistAt(w)) + 1
             /\ hist'[w] # HistAt(w) =>
                   LET x == hist'[w][Len(hist'[w])] IN
                   /\ w \in Used /\ tpc[w] \in {"loop", "pop", "pop_w"}
                   /\ hist'[w] = Append(hist[w], x)
                   /\ \A v \in DOMAIN hist' : v # w => hist'[v] = HistAt(v)
                   /\ IF x = 0
                      THEN update_ev[w] # 0 /\ recs[update_ev[w]].to = w
                      ELSE recs[x].to = w /\ recs'[x].calls = recs[x].calls + 1
        /\ \A e \in DOMAIN recs' :
             recs'[e].calls # CallsAt(e) =>
                /\ recs'[e].to \in Used
                /\ hist'[recs'[e].to] = Append(hist[recs'[e].to], e)
      ]_vars

\* witness of C12: both workers have invoked an event enqueued to their handle,
\* one of them events of both caller threads
C12_Witness ==
    /\ \A w \in PairIdx : w \in Used /\ InvokedSeq(w) # <<>>
    /\ \E w \in Used :
          \E i, j \in 1..Len(hist[w]) :
             /\ hist[w][i] # 0 /\ hist[w][j] # 0
             /\ recs[hist[w][i]].by # recs[hist[w][j]].by

\* a stop record is in mailbox w, not yet dequeued
StopPending(w) ==
    w \in Used /\ \E k \in 1..Len(queue[w]) : recs[queue[w][k]].cb = "stop"
SignalConsumed(w) == w \in Used /\ ~sigPending[w]
\* the thread of slot w has run to pthread_exit
ThreadEnded(w) == w \in Used /\ tpc[w] \in {"exited", "joined"}

\* C13: event_thread_stop pushes the stop record before it sends the signal (a
\* signal on its way to a worker always finds a stop record pushed to that
\* worker's mailbox), and the worker's termination does not depend on where the
\* signal finds the thread: once stop has returned with its signal consumed
\* and the stop record still pending, the worker goes on to terminate.
C13_NoLostWakeup ==
    /\ [](\A w \in Used : sigPending[w] => FirstStop(w) >= 1)
    /\ \A w \in WorkerIdx :
          (StopReturned(w) /\ SignalConsumed(w) /\ StopPending(w)) ~> ThreadEnded(w)

\* the record whose callback thread w invokes when it appends x to its history
InvokedRec(w, x) == IF x = 0 THEN update_ev[w] ELSE x

\* C14: a slot's running flag becomes true only when event_thread_create takes
\* the slot, before the thread exists; afterwards it only goes from true to
\* false, and only in a step in which the slot's own thread, inside its loop,
\* invokes a stop record enqueued to its own handle; a step that consumes the
\* signal sent to a worker changes neither a running flag nor a mailbox.
C14_RunningFlagFrame ==
    [][ /\ \A w \in DOMAIN running' :
             IF w \notin DOMAIN running
             THEN /\ running'[w] /\ tpc'[w] = "none"
                  /\ \E c \in Callers : cop[c] # "create" /\ cop'[c] = "create" /\ ch'[c] = w + 1
             ELSE running'[w] # running[w] =>
                     /\ running[w] /\ ~running'[w]
                     /\ tpc[w] \in {"loop", "pop", "pop_w"}
                     /\ Len(hist'[w]) = Len(hist[w]) + 1
                     /\ LET r == InvokedRec(w, hist'[w][Len(hist'[w])]) IN
                        r # 0 /\ recs[r].cb = "stop" /\ recs[r].to = w
        /\ (\E w \in DOMAIN sigPending : sigPending[w] /\ ~sigPending'[w]) =>
              (running' = running /\ queue' = queue /\ enqOrder' = enqOrder)
      ]_vars

\* witness of C14: the signal of a stop was delivered to a worker that had
\* installed the handler, and the worker's flag was cleared by the stop record
\* it invoked from its mailbox
C14_Witness ==
    \E w \in Used :
        /\ StopReturned(w) /\ SignalConsumed(w) /\ handlerSet /\ proc = "up"
        /\ ~running[w]
        /\ hist[w] # <<>> /\ hist[w][Len(hist[w])] # 0
        /\ recs[hist[w][Len(hist[w])]].cb = "stop"

\* the record event_thread_create enqueues for the update callback
IsUpdateRec(e) == recs[e].cb \in UpdateCbs

\* C17: the first record pushed to a worker's mailbox, and so the record the
\* worker fetches at startup, is the update record of its own create call,
\* whatever another thread does while create runs: nothing is pushed to the slot
\* before its mailbox exists, the fetched record is never invoked as a mailbox
\* event, it is not freed while the worker is in its loop and it has been freed
\* exactly once when the thread has ended.
C17_FirstPopIsUpdateRecord ==
    /\ "push_null_queue" \notin ub
    /\ \A w \in Used :
          /\ enqOrder[w] # <<>> => IsUpdateRec(enqOrder[w][1])
          /\ update_ev[w] # 0 =>
                /\ IsUpdateRec(update_ev[w])
                /\ recs[update_ev[w]].to = w
                /\ ~Occurs(update_ev[w], hist[w])
                /\ recs[update_ev[w]].frees <= 1
                /\ tpc[w] \in {"loop", "pop", "pop_w"} => recs[update_ev[w]].frees = 0
                /\ tpc[w] \in {"exited", "joined"} => recs[update_ev[w]].frees = 1

\* C15: a stop record is the last callback a worker invokes: once the worker
\* has invoked one (from the mailbox or as its tick), its invocation history
\* has no later entry, neither a tick nor a mailbox event.
C15_StopIsLastCallback ==
    \A w \in Used :
        \A k \in 1..Len(hist[w]) :
            LET r == InvokedRec(w, hist[w][k]) IN
            (r # 0 /\ recs[r].cb = "stop") => k = Len(hist[w])

\* C16: when the dequeue of a loop iteration is interrupted while the running
\* flag is true, the step invokes no callback, frees no record, leaves every
\* mailbox and running flag as it was, performs nothing undefined and takes the
\* thread back to the head of its loop; and a thread at the head of its loop
\* with the flag true goes on to the dequeue, invoking its tick (the callback
\* of the record it fetched at startup, if it has one) on the way.
C16_InterruptedDequeueContinues ==
    [][ \A w \in Used :
          /\ (tpc[w] = "pop_w" /\ running[w] /\ sigPending[w] /\ ~sigPending'[w]) =>
                /\ tpc'[w] = "loop"
                /\ hist' = hist /\ recs' = recs
                /\ queue' = queue /\ enqOrder' = enqOrder
                /\ running' = running /\ update_ev' = update_ev
                /\ proc' = "up" /\ ub' = ub
          /\ (tpc[w] = "loop" /\ running[w] /\ tpc'[w] # "loop") =>
                /\ tpc'[w] = "pop"
                /\ recs' = recs
                /\ hist'[w] = IF recs[update_ev[w]].cb # "nullcb"
                              THEN Append(hist[w], 0) ELSE hist[w]
      ]_vars

\* witness of C16: a worker still running has ticked twice in a row, that is,
\* the dequeue between the two ticks returned without a payload
C16_Witness ==
    \E w \in Used :
        /\ running[w] /\ tpc[w] \in {"pop", "pop_w"} /\ proc = "up"
        /\ Len(hist[w]) >= 2
        /\ hist[w][Len(hist[w])] = 0 /\ hist[w][Len(hist[w]) - 1] = 0
        /\ recs[update_ev[w]].cb = "update"

\* the thread of slot w went to "out" before it had fetched its update record
StartupFailed(w) ==
    /\ w \in Used /\ update_ev[w] = 0
    /\ tpc[w] \in {"drain", "drain_w", "freeq", "exited", "joined"}

\* C18: a worker whose startup failed inside its thread invokes no callback;
\* stopping it or shutting the library down afterwards does not bring the
\* process down; when its thread has ended, its mailbox, its name and every
\* record pushed to its mailbox are released; and when a wait or shutdown that
\* found it marked running has returned, its thread has ended.
C18_StartupFailureReaped ==
    \A w \in Used :
        StartupFailed(w) =>
            /\ hist[w] = <<>>
            /\ proc # "killed"
            /\ ThreadEnded(w) =>
                  (events[w] = "freed" /\ name[w] = "freed" /\ AllFreed(w))
            /\ \A c \in Callers :
                  (ret[c].op \in {"wait", "shutdown"} /\ w \in cwrun[c]) => ThreadEnded(w)

\* C19: no enqueue or stop reaches a mailbox or a thread that does not exist:
\* nothing is ever pushed to the mailbox of a slot that was never allocated
\* one (never created, or create failed) or whose mailbox was freed (failed
\* spawn, thread ended), and no signal is sent through a thread id that names
\* no thread.
C19_NoEnqueueToMissingMailbox ==
    /\ "push_null_queue" \notin ub
    /\ "push_freed_queue" \notin ub
    /\ "kill_invalid_tid" \notin ub

\* the mailbox of slot w exists and its thread has not begun to free it
Live(w) == w \in Used /\ events[w] = "alloc" /\ tpc[w] \in
               {"start", "fetch", "fetch_w", "loop", "pop", "pop_w", "drain", "drain_w"}

\* C20: no record is lost, however many are pending: as long as a worker's
\* mailbox is there, every record whose enqueue to it returned success is
\* still in the mailbox, or is the record the worker fetched at startup, or was
\* dequeued or drained by the worker (and then freed once).
C20_EnqueueNeverLosesData ==
    \A w \in Used :
        Live(w) =>
            \A k \in 1..Len(enqOrder[w]) :
                LET e == enqOrder[w][k] IN
                \/ Occurs(e, queue[w])
                \/ (e = update_ev[w] /\ recs[e].frees = 0)
                \/ recs[e].frees = 1

====
